---- MODULE Spec2Model ----
(***************************************************************************)
(* Grain ticket manager: the contract allocation engine.                   *)
(*                                                                         *)
(* The store (tickets and contracts tables with the trigger                *)
(* update_contract_bushels), the review queue page (handleApprove,         *)
(* handleOverfillDecision, handleReject), the tickets pages (saveEdit,     *)
(* soft delete, restore, permanent delete), the contracts page and the     *)
(* contract matcher (findBestContract).                                    *)
(*                                                                         *)
(* Text is a sequence of one-character strings, so that normalizeLocation  *)
(* is computed character by character.  Bushels are integers.  A date is a *)
(* day number 1..MaxDate, and NoDate stands for a null end_date.           *)
(***************************************************************************)
EXTENDS Integers, Sequences, FiniteSets, TLC

(***************************************************************************)
(* Bounds of the model.                                                    *)
(***************************************************************************)
NumTickets == 2
NumContracts == 2
MaxBushels == 2
MaxDate == 2
MaxCandidates == 2

(***************************************************************************)
(* Program constants.                                                      *)
(***************************************************************************)
NULL == 0
NoDate == 0
FullPercent == 100

TicketIds == 1..NumTickets
ContractIds == 1..NumContracts
Dates == 1..MaxDate

(***************************************************************************)
(* Text.                                                                   *)
(***************************************************************************)
UpperChars == <<"A", "B", "C", "D", "E", "F", "G", "H", "I", "J", "K", "L", "M",
                "N", "O", "P", "Q", "R", "S", "T", "U", "V", "W", "X", "Y", "Z">>
LowerChars == <<"a", "b", "c", "d", "e", "f", "g", "h", "i", "j", "k", "l", "m",
                "n", "o", "p", "q", "r", "s", "t", "u", "v", "w", "x", "y", "z">>
DigitChars == <<"0", "1", "2", "3", "4", "5", "6", "7", "8", "9">>
SpaceChars == {" "}

Range(s) == {s[i] : i \in DOMAIN s}

\* String.prototype.toLowerCase on one character
lowerChar(ch) ==
    IF \E i \in DOMAIN UpperChars : UpperChars[i] = ch
    THEN LowerChars[CHOOSE i \in DOMAIN UpperChars : UpperChars[i] = ch]
    ELSE ch

toLowerCase(s) == [i \in DOMAIN s |-> lowerChar(s[i])]

\* the character class [a-z0-9]
isAlnumLower(ch) == ch \in Range(LowerChars) \cup Range(DigitChars)

\* .replace(/[^a-z0-9]/g, '')
stripNonAlnum(s) == SelectSeq(s, isAlnumLower)

RECURSIVE trimLeft(_)
trimLeft(s) ==
    IF s # <<>> /\ Head(s) \in SpaceChars THEN trimLeft(Tail(s)) ELSE s

RECURSIVE trimRight(_)
trimRight(s) ==
    IF s # <<>> /\ s[Len(s)] \in SpaceChars
    THEN trimRight(SubSeq(s, 1, Len(s) - 1))
    ELSE s

trim(s) == trimRight(trimLeft(s))

normalizeLocation(location) == trim(stripNonAlnum(toLowerCase(location)))

locationsMatch(loc1, loc2) == normalizeLocation(loc1) = normalizeLocation(loc2)

(***************************************************************************)
(* Contract rows: the generated columns.                                   *)
(***************************************************************************)
remaining_bushels(c) == c.contracted_bushels - c.delivered_bushels

\* delivered / contracted * 100, rounded down to a whole percent: the
\* comparison with 100 is the same on the rounded and on the exact value
percent_filled(c) ==
    IF c.contracted_bushels > 0
    THEN (c.delivered_bushels * 100) \div c.contracted_bushels
    ELSE 0

(***************************************************************************)
(* The contract matcher.                                                   *)
(***************************************************************************)
NullContract == [id |-> NULL]

\* the filter with the check of percent_filled left out
matchesTicketAnyFill(c, ticket) ==
    /\ c.owner = ticket.person
    /\ c.crop = ticket.crop
    /\ c.through = ticket.through
    /\ locationsMatch(c.destination, ticket.delivery_location)
    /\ c.is_spot_sale

\* the filter predicate of findBestContract
matchesTicket(c, ticket) ==
    LET personMatch == c.owner = ticket.person
        cropMatch == c.crop = ticket.crop
        throughMatch == c.through = ticket.through
        locationMatch == locationsMatch(c.destination, ticket.delivery_location)
        notFilled == percent_filled(c) < FullPercent
        notSpot == ~c.is_spot_sale
    IN  personMatch /\ cropMatch /\ throughMatch /\ locationMatch /\ notFilled /\ ~notSpot

\* aDate - bDate of the sort comparators, as a sign; Infinity - Infinity is
\* NaN, which Array.prototype.sort reads as 0
compareEndDate(a, b) ==
    IF a.end_date = NoDate /\ b.end_date = NoDate THEN 0
    ELSE IF a.end_date = NoDate THEN 1
    ELSE IF b.end_date = NoDate THEN -1
    ELSE IF a.end_date < b.end_date THEN -1
    ELSE IF a.end_date > b.end_date THEN 1
    ELSE 0

\* Array.prototype.sort is stable: x, which stood before all of s, stays
\* before the elements it compares equal to
RECURSIVE insertSorted(_, _)
insertSorted(x, s) ==
    IF s = <<>> THEN <<x>>
    ELSE IF compareEndDate(x, Head(s)) <= 0 THEN <<x>> \o s
    ELSE <<Head(s)>> \o insertSorted(x, Tail(s))

RECURSIVE sortByEndDate(_)
sortByEndDate(s) ==
    IF s = <<>> THEN <<>> ELSE insertSorted(Head(s), sortByEndDate(Tail(s)))

findBestContract(ticket, cs) ==
    LET matchingContracts == SelectSeq(cs, LAMBDA c : matchesTicket(c, ticket))
    IN  IF Len(matchingContracts) = 0
        THEN [contract |-> NullContract, matchType |-> "spot", confidence |-> 0]
        ELSE [contract |-> sortByEndDate(matchingContracts)[1],
              matchType |-> "exact", confidence |-> 100]


\* a spot-sale record that is open-ended
createSpotSaleContractOpenEnded(ticket) ==
    [crop |-> ticket.crop,
     owner |-> ticket.person,
     through |-> ticket.through,
     destination |-> ticket.delivery_location,
     contracted_bushels |-> 0,
     start_date |-> ticket.ticket_date,
     end_date |-> NoDate,
     priority |-> 10,
     overfill_allowed |-> TRUE,
     is_template |-> FALSE,
     is_spot_sale |-> TRUE,
     crop_year |-> ticket.crop_year]

\* the record createSpotSaleContract returns (contract_number and notes
\* carry no state of the allocation and are left out)
createSpotSaleContract(ticket) ==
    [crop |-> ticket.crop,
     owner |-> ticket.person,
     through |-> ticket.through,
     destination |-> ticket.delivery_location,
     contracted_bushels |-> 0,
     start_date |-> ticket.ticket_date,
     end_date |-> ticket.ticket_date,
     priority |-> 10,
     overfill_allowed |-> TRUE,
     is_template |-> FALSE,
     is_spot_sale |-> TRUE,
     crop_year |-> ticket.crop_year]

(***************************************************************************)
(* The store: tables tickets and contracts, keyed by id, and the trigger   *)
(* update_contract_bushels_trigger.                                        *)
(***************************************************************************)
Statuses == {"needs_review", "approved", "rejected", "hold"}

RECURSIVE sumBushels(_, _)
sumBushels(tk, ids) ==
    IF ids = {} THEN 0
    ELSE LET i == CHOOSE j \in ids : TRUE
         IN  tk[i].bushels + sumBushels(tk, ids \ {i})

\* SELECT COALESCE(SUM(bushels), 0) FROM tickets
\*  WHERE contract_id = cid AND status = 'approved' [AND id != excluded]
sumApproved(tk, cid, excluded) ==
    sumBushels(tk, {i \in DOMAIN tk : /\ tk[i].contract_id = cid
                                      /\ tk[i].status = "approved"
                                      /\ i # excluded})

\* UPDATE contracts SET delivered_bushels = v WHERE id = cid
setDelivered(ct, cid, v) ==
    IF cid \in DOMAIN ct THEN [ct EXCEPT ![cid].delivered_bushels = v] ELSE ct

\* the trigger recomputing the contract of the new row only
update_new_contract_only(ct, tk, TG_OP, OLDROW, NEWROW, id) ==
    IF /\ TG_OP \in {"INSERT", "UPDATE"}
       /\ NEWROW.status = "approved"
       /\ NEWROW.contract_id # NULL
    THEN setDelivered(ct, NEWROW.contract_id, sumApproved(tk, NEWROW.contract_id, NULL))
    ELSE ct

\* the trigger function, run AFTER the row of ticket id changed: tk is the
\* tickets table with the change applied
update_contract_bushels(ct, tk, TG_OP, OLDROW, NEWROW, id) ==
    LET ct1 == IF /\ TG_OP \in {"INSERT", "UPDATE"}
                  /\ NEWROW.status = "approved"
                  /\ NEWROW.contract_id # NULL
               THEN setDelivered(ct, NEWROW.contract_id,
                                 sumApproved(tk, NEWROW.contract_id, NULL))
               ELSE ct
    IN  IF TG_OP \in {"DELETE", "UPDATE"} /\ OLDROW.contract_id # NULL
        THEN setDelivered(ct1, OLDROW.contract_id, sumApproved(tk, OLDROW.contract_id, id))
        ELSE ct1

\* a function without the key k
dropKey(f, k) == [i \in DOMAIN f \ {k} |-> f[i]]

\* supabase.from('tickets').insert([row]): fk_tickets_contract is checked
dbInsertTicket(tk, ct, id, row) ==
    IF row.contract_id # NULL /\ row.contract_id \notin DOMAIN ct
    THEN [t |-> tk, c |-> ct, error |-> TRUE]
    ELSE LET NEWROW == [row EXCEPT !.id = id]
             tk2 == tk @@ (id :> NEWROW)
         IN  [t |-> tk2,
              c |-> update_contract_bushels(ct, tk2, "INSERT", NEWROW, NEWROW, id),
              error |-> FALSE]

\* the row with the columns of patch overwritten
applyPatch(row, patch) ==
    [f \in DOMAIN row |-> IF f \in DOMAIN patch THEN patch[f] ELSE row[f]]

\* supabase.from('tickets').update(patch).eq('id', id): no row of that id is
\* no error; fk_tickets_contract is checked
dbUpdateTicket(tk, ct, id, patch) ==
    IF id \notin DOMAIN tk THEN [t |-> tk, c |-> ct, error |-> FALSE]
    ELSE LET NEWROW == applyPatch(tk[id], patch)
             tk2 == [tk EXCEPT ![id] = NEWROW]
         IN  IF NEWROW.contract_id # NULL /\ NEWROW.contract_id \notin DOMAIN ct
             THEN [t |-> tk, c |-> ct, error |-> TRUE]
             ELSE [t |-> tk2,
                   c |-> update_contract_bushels(ct, tk2, "UPDATE", tk[id], NEWROW, id),
                   error |-> FALSE]

\* supabase.from('tickets').delete().eq('id', id)
dbDeleteTicket(tk, ct, id) ==
    IF id \notin DOMAIN tk THEN [t |-> tk, c |-> ct, error |-> FALSE]
    ELSE LET tk2 == dropKey(tk, id)
         IN  [t |-> tk2,
              c |-> update_contract_bushels(ct, tk2, "DELETE", tk[id], tk[id], id),
              error |-> FALSE]

\* a delete of contracts that takes their tickets with it
dbDeleteContractsCascade(tk, ct, ids) ==
    [t |-> [i \in {j \in DOMAIN tk : tk[j].contract_id \notin ids} |-> tk[i]],
     c |-> [k \in DOMAIN ct \ ids |-> ct[k]]]

\* a delete of contracts with no foreign key behind it
dbDeleteContractsDangling(tk, ct, ids) ==
    [t |-> tk, c |-> [k \in DOMAIN ct \ ids |-> ct[k]]]

\* fk_tickets_contract ON DELETE SET NULL: each referencing row of todo is
\* updated to contract_id NULL, and the row triggers of tickets fire on it
RECURSIVE setNullReferencing(_, _, _)
setNullReferencing(tk, ct, todo) ==
    IF todo = {} THEN [t |-> tk, c |-> ct]
    ELSE LET id == CHOOSE j \in todo : TRUE
             NEWROW == [tk[id] EXCEPT !.contract_id = NULL]
             tk2 == [tk EXCEPT ![id] = NEWROW]
         IN  setNullReferencing(tk2,
                                update_contract_bushels(ct, tk2, "UPDATE", tk[id], NEWROW, id),
                                todo \ {id})

\* supabase.from('contracts').delete().eq('id', id) and .in('id', ids)
dbDeleteContracts(tk, ct, ids) ==
    setNullReferencing(tk, [k \in DOMAIN ct \ ids |-> ct[k]],
                       {i \in DOMAIN tk : tk[i].contract_id \in ids})

\* the bushels of the tickets bound to the contracts ids
boundBushels(tk, ids) ==
    sumBushels(tk, {i \in DOMAIN tk : tk[i].contract_id \in ids})

\* supabase.from('contracts').insert([row]).select().single(): the new row
\* has a fresh id and delivered_bushels at its default 0
dbInsertContract(ct, id, row) ==
    ct @@ (id :> [id |-> id,
                  crop |-> row.crop,
                  owner |-> row.owner,
                  through |-> row.through,
                  destination |-> row.destination,
                  contracted_bushels |-> row.contracted_bushels,
                  delivered_bushels |-> 0,
                  start_date |-> row.start_date,
                  end_date |-> row.end_date,
                  priority |-> row.priority,
                  overfill_allowed |-> row.overfill_allowed,
                  is_template |-> row.is_template,
                  is_spot_sale |-> row.is_spot_sale,
                  crop_year |-> row.crop_year])


(***************************************************************************)
(* Values the operators enter.                                             *)
(***************************************************************************)
LocElevatorA == <<"E", "l", "-", "A">>
LocElevatorALoose == <<"e", "l", " ", "a">>
LocElevatorB == <<"E", "l", "-", "B">>

currentYear == "2025"
uploadPerson == "Karl"
uploadCrop == "Corn"
uploadThrough == "Akron"

NullTicket == [id |-> NULL]
NoDecision == "null"
Decisions == {"roll", "keep", "spot"}

(***************************************************************************)
(* State.                                                                  *)
(***************************************************************************)
VARIABLES
    dbTickets,          \* table tickets: id -> row
    dbContracts,        \* table contracts: id -> row
    ticketSeq,          \* the next ticket id (ids are never reused)
    contractSeq,        \* the next contract id
    page,               \* the page the operator is on: "review" or "other"
    tickets,            \* ReviewQueuePage state: the loaded queue
    contracts,          \* ReviewQueuePage state: the loaded contracts
    selectedTicket,     \* ReviewQueuePage state
    showOverfillModal,  \* ReviewQueuePage state
    overfillDecision,   \* ReviewQueuePage state
    last,               \* the last handler run, with what it read
    mTicket,            \* matcher on its own: the delivery
    mContracts,         \* matcher on its own: the candidates
    mResult             \* matcher on its own: the MatchResult

store == <<dbTickets, dbContracts, ticketSeq, contractSeq>>
reviewState == <<tickets, contracts, selectedTicket, showOverfillModal, overfillDecision>>
matcherState == <<mTicket, mContracts, mResult>>
vars == <<dbTickets, dbContracts, ticketSeq, contractSeq, page, tickets, contracts,
          selectedTicket, showOverfillModal, overfillDecision, last,
          mTicket, mContracts, mResult>>

NoResult == [contract |-> NullContract, matchType |-> "none", confidence |-> 0]

Ran(op, id, bushels, contract) ==
    [op |-> op, id |-> id, bushels |-> bushels, contract |-> contract]

(***************************************************************************)
(* ReviewQueuePage: fetchData.                                             *)
(***************************************************************************)
\* the rows of ids, newest first (created_at descending)
RECURSIVE newestFirst(_, _)
newestFirst(tk, ids) ==
    IF ids = {} THEN <<>>
    ELSE LET i == CHOOSE j \in ids : \A k \in ids : k <= j
         IN  <<tk[i]>> \o newestFirst(tk, ids \ {i})

fetchedTickets(tk) ==
    newestFirst(tk, {i \in DOMAIN tk : /\ tk[i].status = "needs_review"
                                       /\ tk[i].crop_year = currentYear
                                       /\ tk[i].deleted = FALSE})

\* the contracts query has no ORDER BY: the rows come in any order
fetchedContracts(ct) ==
    LET ids == {i \in DOMAIN ct : ct[i].crop_year = currentYear}
        n == Cardinality(ids)
        orders == {o \in [1..n -> ids] : \A a, b \in 1..n : a # b => o[a] # o[b]}
    IN  {[k \in 1..n |-> ct[o[k]]] : o \in orders}

\* fetchData against the tables tk and ct
fetchData(tk, ct) ==
    /\ tickets' = fetchedTickets(tk)
    /\ contracts' \in fetchedContracts(ct)

closeModal ==
    /\ showOverfillModal' = FALSE
    /\ selectedTicket' = NullTicket
    /\ overfillDecision' = NoDecision

(***************************************************************************)
(* ReviewQueuePage: the handlers.                                          *)
(***************************************************************************)
\* the spot-sale branch shared by handleApprove and handleOverfillDecision:
\* insert the contract, then bind the ticket to it
approveOnSpotSale(ticket) ==
    LET spotContract == createSpotSaleContract(ticket)
        ct1 == dbInsertContract(dbContracts, contractSeq, spotContract)
        w == dbUpdateTicket(dbTickets, ct1, ticket.id,
                            [status |-> "approved", contract_id |-> contractSeq])
    IN  /\ contractSeq <= NumContracts
        /\ contractSeq' = contractSeq + 1
        /\ dbTickets' = w.t
        /\ dbContracts' = w.c
        /\ UNCHANGED ticketSeq

\* the ticket update with no trigger behind it
approveOnContractUncounted(ticket, cid) ==
    /\ dbTickets' = [dbTickets EXCEPT ![ticket.id].status = "approved",
                                      ![ticket.id].contract_id = cid]
    /\ UNCHANGED <<dbContracts, ticketSeq, contractSeq>>

\* the ticket update of a normal approval, of keep and of roll
approveOnContract(ticket, cid) ==
    LET w == dbUpdateTicket(dbTickets, dbContracts, ticket.id,
                            [status |-> "approved", contract_id |-> cid])
    IN  /\ dbTickets' = w.t
        /\ dbContracts' = w.c
        /\ UNCHANGED <<ticketSeq, contractSeq>>

\* the overfill condition with the target itself counted as over
willPromptAtTarget(contract, ticket) ==
    /\ contract.delivered_bushels + ticket.bushels >= contract.contracted_bushels
    /\ ~contract.overfill_allowed

willPrompt(contract, ticket) ==
    LET newDelivered == contract.delivered_bushels + ticket.bushels
        willOverfill == newDelivered > contract.contracted_bushels
    IN  willOverfill /\ ~contract.overfill_allowed

handleApprove(i) ==
    /\ page = "review"
    /\ ~showOverfillModal
    /\ i \in DOMAIN tickets
    /\ LET ticket == tickets[i]
           matchResult == findBestContract(ticket, contracts)
           contract == matchResult.contract
       IN  /\ last' = Ran("handleApprove", ticket.id, ticket.bushels, contract)
           /\ IF matchResult.matchType = "spot"
              THEN /\ approveOnSpotSale(ticket)
                   /\ fetchData(dbTickets', dbContracts')
                   /\ UNCHANGED <<selectedTicket, showOverfillModal, overfillDecision>>
              ELSE IF willPrompt(contract, ticket)
              THEN /\ selectedTicket' = ticket
                   /\ showOverfillModal' = TRUE
                   /\ UNCHANGED <<store, tickets, contracts, overfillDecision>>
              ELSE /\ approveOnContract(ticket, contract.id)
                   /\ fetchData(dbTickets', dbContracts')
                   /\ UNCHANGED <<selectedTicket, showOverfillModal, overfillDecision>>
    /\ UNCHANGED <<page, matcherState>>

\* the three buttons of the overfill modal
setOverfillDecision(d) ==
    /\ page = "review"
    /\ showOverfillModal
    /\ selectedTicket.id # NULL
    /\ overfillDecision # d
    /\ overfillDecision' = d
    /\ last' = Ran("setOverfillDecision", selectedTicket.id, 0, NullContract)
    /\ UNCHANGED <<store, page, tickets, contracts, selectedTicket, showOverfillModal,
                   matcherState>>

\* a Cancel that keeps the ticket on the contract that raised the prompt
cancelOverfillKeeping ==
    /\ page = "review"
    /\ showOverfillModal
    /\ selectedTicket.id # NULL
    /\ approveOnContract(selectedTicket, findBestContract(selectedTicket, contracts).contract.id)
    /\ closeModal
    /\ last' = Ran("cancelOverfill", selectedTicket.id, 0, NullContract)
    /\ UNCHANGED <<page, tickets, contracts, matcherState>>

\* the Cancel button of the overfill modal
cancelOverfill ==
    /\ page = "review"
    /\ showOverfillModal
    /\ selectedTicket.id # NULL
    /\ closeModal
    /\ last' = Ran("cancelOverfill", selectedTicket.id, 0, NullContract)
    /\ UNCHANGED <<store, page, tickets, contracts, matcherState>>

\* the contracts a roll may go to
remainingContracts(contract, ticket, cs) ==
    SelectSeq(cs, LAMBDA c : /\ c.id # contract.id
                             /\ c.owner = ticket.person
                             /\ c.crop = ticket.crop
                             /\ c.through = ticket.through
                             /\ percent_filled(c) < FullPercent)

\* the resolver treating 'spot' as it treats 'roll'
handleOverfillDecisionSpotRolls ==
    /\ page = "review"
    /\ showOverfillModal
    /\ selectedTicket.id # NULL
    /\ overfillDecision # NoDecision
    /\ LET matchResult == findBestContract(selectedTicket, contracts)
           contract == matchResult.contract
           remaining == remainingContracts(contract, selectedTicket, contracts)
           \* contract.id of a null contract throws: in keep, and in the
           \* filter of roll when there is a row to test
           throws == /\ contract.id = NULL
                     /\ \/ overfillDecision = "keep"
                        \/ overfillDecision = "roll" /\ Len(contracts) # 0
       IN  /\ last' = Ran(overfillDecision, selectedTicket.id, selectedTicket.bushels, contract)
           /\ IF throws
              THEN UNCHANGED <<store, reviewState>>
              ELSE /\ CASE overfillDecision = "keep" ->
                               approveOnContract(selectedTicket, contract.id)
                        [] overfillDecision = "roll" /\ Len(remaining) = 0 ->
                               approveOnSpotSale(selectedTicket)
                        [] overfillDecision = "roll" /\ Len(remaining) # 0 ->
                               approveOnContract(selectedTicket,
                                                 sortByEndDate(remaining)[1].id)
                        [] overfillDecision = "spot" /\ Len(remaining) = 0 ->
                               approveOnSpotSale(selectedTicket)
                        [] overfillDecision = "spot" /\ Len(remaining) # 0 ->
                               approveOnContract(selectedTicket,
                                                 sortByEndDate(remaining)[1].id)
                   /\ closeModal
                   /\ fetchData(dbTickets', dbContracts')
    /\ UNCHANGED <<page, matcherState>>

\* the resolver running the overfill check on the contract a roll goes to
\* and leaving the prompt open when that contract would go over its target
handleOverfillDecisionRollChecks ==
    /\ page = "review"
    /\ showOverfillModal
    /\ selectedTicket.id # NULL
    /\ overfillDecision # NoDecision
    /\ LET matchResult == findBestContract(selectedTicket, contracts)
           contract == matchResult.contract
           remaining == remainingContracts(contract, selectedTicket, contracts)
           throws == /\ contract.id = NULL
                     /\ \/ overfillDecision = "keep"
                        \/ overfillDecision = "roll" /\ Len(contracts) # 0
           again == /\ overfillDecision = "roll"
                    /\ Len(remaining) # 0
                    /\ willPrompt(sortByEndDate(remaining)[1], selectedTicket)
       IN  /\ last' = Ran(overfillDecision, selectedTicket.id, selectedTicket.bushels, contract)
           /\ IF throws \/ again
              THEN UNCHANGED <<store, reviewState>>
              ELSE /\ CASE overfillDecision = "keep" ->
                               approveOnContract(selectedTicket, contract.id)
                        [] overfillDecision = "roll" /\ Len(remaining) = 0 ->
                               approveOnSpotSale(selectedTicket)
                        [] overfillDecision = "roll" /\ Len(remaining) # 0 ->
                               approveOnContract(selectedTicket,
                                                 sortByEndDate(remaining)[1].id)
                        [] overfillDecision = "spot" ->
                               approveOnSpotSale(selectedTicket)
                   /\ closeModal
                   /\ fetchData(dbTickets', dbContracts')
    /\ UNCHANGED <<page, matcherState>>

handleOverfillDecision ==
    /\ page = "review"
    /\ showOverfillModal
    /\ selectedTicket.id # NULL
    /\ overfillDecision # NoDecision
    /\ LET matchResult == findBestContract(selectedTicket, contracts)
           contract == matchResult.contract
           remaining == remainingContracts(contract, selectedTicket, contracts)
           \* contract.id of a null contract throws: in keep, and in the
           \* filter of roll when there is a row to test
           throws == /\ contract.id = NULL
                     /\ \/ overfillDecision = "keep"
                        \/ overfillDecision = "roll" /\ Len(contracts) # 0
       IN  /\ last' = Ran(overfillDecision, selectedTicket.id, selectedTicket.bushels, contract)
           /\ IF throws
              THEN UNCHANGED <<store, reviewState>>
              ELSE /\ CASE overfillDecision = "keep" ->
                               approveOnContract(selectedTicket, contract.id)
                        [] overfillDecision = "roll" /\ Len(remaining) = 0 ->
                               approveOnSpotSale(selectedTicket)
                        [] overfillDecision = "roll" /\ Len(remaining) # 0 ->
                               approveOnContract(selectedTicket,
                                                 sortByEndDate(remaining)[1].id)
                        [] overfillDecision = "spot" ->
                               approveOnSpotSale(selectedTicket)
                   /\ closeModal
                   /\ fetchData(dbTickets', dbContracts')
    /\ UNCHANGED <<page, matcherState>>

\* the spot-sale branch when one of its two store writes returns an error:
\* a failed insert returns at once; a failed ticket update comes after the
\* insert has been stored, and nothing removes the new contract
approveOnSpotSaleFailed(ticket, failed) ==
    IF failed = "contracts"
    THEN UNCHANGED store
    ELSE /\ contractSeq <= NumContracts
         /\ contractSeq' = contractSeq + 1
         /\ dbContracts' = dbInsertContract(dbContracts, contractSeq,
                                            createSpotSaleContract(ticket))
         /\ UNCHANGED <<dbTickets, ticketSeq>>

\* handleApprove when the store write on table failed returns an error: an
\* alert, no fetchData
handleApproveFailed(i, failed) ==
    /\ page = "review"
    /\ ~showOverfillModal
    /\ i \in DOMAIN tickets
    /\ LET ticket == tickets[i]
           matchResult == findBestContract(ticket, contracts)
           contract == matchResult.contract
       IN  /\ last' = Ran("handleApproveFailed", ticket.id, ticket.bushels, contract)
           /\ IF matchResult.matchType = "spot"
              THEN approveOnSpotSaleFailed(ticket, failed)
              ELSE /\ ~willPrompt(contract, ticket)
                   /\ failed = "tickets"
                   /\ UNCHANGED store
    /\ UNCHANGED <<page, reviewState, matcherState>>

\* handleOverfillDecision when the store write on table failed returns an
\* error: the modal stays open, no fetchData
handleOverfillDecisionFailed(failed) ==
    /\ page = "review"
    /\ showOverfillModal
    /\ selectedTicket.id # NULL
    /\ overfillDecision # NoDecision
    /\ LET matchResult == findBestContract(selectedTicket, contracts)
           contract == matchResult.contract
           remaining == remainingContracts(contract, selectedTicket, contracts)
           \* a write is reached unless contract.id of a null contract threw
           throws == /\ contract.id = NULL
                     /\ \/ overfillDecision = "keep"
                        \/ overfillDecision = "roll" /\ Len(contracts) # 0
       IN  /\ ~throws
           /\ last' = Ran("handleOverfillDecisionFailed", selectedTicket.id,
                          selectedTicket.bushels, contract)
           /\ IF \/ overfillDecision = "spot"
                 \/ overfillDecision = "roll" /\ Len(remaining) = 0
              THEN approveOnSpotSaleFailed(selectedTicket, failed)
              ELSE /\ failed = "tickets"
                   /\ UNCHANGED store
    /\ UNCHANGED <<page, reviewState, matcherState>>

\* handleApprove in another session on ticket id, that session having just
\* loaded its own queue (fetchData): it writes to the same store and leaves
\* this session's loaded queue as it is; an overfill prompt it raises there
\* is left unanswered
peerHandleApprove(id) ==
    /\ id \in DOMAIN dbTickets
    /\ \E i \in DOMAIN fetchedTickets(dbTickets), peerContracts \in fetchedContracts(dbContracts) :
          LET ticket == fetchedTickets(dbTickets)[i]
              matchResult == findBestContract(ticket, peerContracts)
              contract == matchResult.contract
          IN  /\ ticket.id = id
              /\ last' = Ran("peerHandleApprove", ticket.id, ticket.bushels, contract)
              /\ IF matchResult.matchType = "spot"
                 THEN approveOnSpotSale(ticket)
                 ELSE IF willPrompt(contract, ticket)
                 THEN UNCHANGED store
                 ELSE approveOnContract(ticket, contract.id)
    /\ UNCHANGED <<page, reviewState, matcherState>>

handleReject(i) ==
    /\ page = "review"
    /\ ~showOverfillModal
    /\ i \in DOMAIN tickets
    /\ LET w == dbUpdateTicket(dbTickets, dbContracts, tickets[i].id, [status |-> "rejected"])
       IN  /\ dbTickets' = w.t
           /\ dbContracts' = w.c
           /\ fetchData(w.t, w.c)
    /\ last' = Ran("handleReject", tickets[i].id, tickets[i].bushels, NullContract)
    /\ UNCHANGED <<ticketSeq, contractSeq, page, selectedTicket, showOverfillModal,
                   overfillDecision, matcherState>>

\* handleAIRead on a ticket of the loaded queue, from the reply of the
\* reader on: the bushels it extracted are written to the ticket and the
\* queue is fetched again; the reply may come while the overfill prompt is
\* open
handleAIRead(i, bushels) ==
    /\ page = "review"
    /\ i \in DOMAIN tickets
    /\ LET w == dbUpdateTicket(dbTickets, dbContracts, tickets[i].id, [bushels |-> bushels])
       IN  /\ ~w.error
           /\ dbTickets' = w.t
           /\ dbContracts' = w.c
           /\ fetchData(w.t, w.c)
    /\ last' = Ran("handleAIRead", tickets[i].id, bushels, NullContract)
    /\ UNCHANGED <<ticketSeq, contractSeq, page, selectedTicket, showOverfillModal,
                   overfillDecision, matcherState>>

\* ContractsPage handleDelete in another session: it writes to the same
\* store and leaves this session's page as it is
peerHandleDelete(id) ==
    /\ id \in DOMAIN dbContracts
    /\ LET w == dbDeleteContracts(dbTickets, dbContracts, {id})
       IN  /\ dbTickets' = w.t
           /\ dbContracts' = w.c
    /\ last' = Ran("peerHandleDelete", id, boundBushels(dbTickets, {id}), dbContracts[id])
    /\ UNCHANGED <<ticketSeq, contractSeq, page, reviewState, matcherState>>

\* reject and hold buttons that run the matcher and write its contract too
handleStatusMatching(i, status) ==
    /\ page = "review"
    /\ ~showOverfillModal
    /\ i \in DOMAIN tickets
    /\ LET match == findBestContract(tickets[i], contracts).contract
           w == dbUpdateTicket(dbTickets, dbContracts, tickets[i].id,
                               [status |-> status, contract_id |-> match.id])
       IN  /\ dbTickets' = w.t
           /\ dbContracts' = w.c
           /\ fetchData(w.t, w.c)
    /\ last' = Ran("handleStatus", tickets[i].id, tickets[i].bushels, NullContract)
    /\ UNCHANGED <<ticketSeq, contractSeq, page, selectedTicket, showOverfillModal,
                   overfillDecision, matcherState>>

\* the older queue's reject and hold buttons
handleStatus(i, status) ==
    /\ page = "review"
    /\ ~showOverfillModal
    /\ i \in DOMAIN tickets
    /\ LET w == dbUpdateTicket(dbTickets, dbContracts, tickets[i].id, [status |-> status])
       IN  /\ dbTickets' = w.t
           /\ dbContracts' = w.c
           /\ fetchData(w.t, w.c)
    /\ last' = Ran("handleStatus", tickets[i].id, tickets[i].bushels, NullContract)
    /\ UNCHANGED <<ticketSeq, contractSeq, page, selectedTicket, showOverfillModal,
                   overfillDecision, matcherState>>

(***************************************************************************)
(* The other pages.  What they load is fresh whenever a handler runs, so   *)
(* the handlers read the tables.                                           *)
(***************************************************************************)
otherPage(op, id) ==
    /\ page = "other"
    /\ last' = Ran(op, id, 0, NullContract)
    /\ UNCHANGED <<page, reviewState, matcherState>>

\* UploadPage: handleSubmit
handleSubmitUpload(bushels, ticket_date) ==
    /\ ticketSeq <= NumTickets
    /\ LET w == dbInsertTicket(dbTickets, dbContracts, ticketSeq,
                               [id |-> ticketSeq,
                                ticket_date |-> ticket_date,
                                person |-> uploadPerson,
                                crop |-> uploadCrop,
                                bushels |-> bushels,
                                delivery_location |-> LocElevatorA,
                                through |-> uploadThrough,
                                contract_id |-> NULL,
                                status |-> "needs_review",
                                crop_year |-> currentYear,
                                deleted |-> FALSE])
       IN  /\ dbTickets' = w.t
           /\ dbContracts' = w.c
    /\ ticketSeq' = ticketSeq + 1
    /\ UNCHANGED contractSeq
    /\ otherPage("handleSubmitUpload", ticketSeq)

\* TicketsPage: saveEdit, the operator changing bushels, contract and status;
\* ran is what the step leaves in last
saveEditAs(id, bushels, contract_id, status, ran) ==
    /\ id \in DOMAIN dbTickets
    /\ LET w == dbUpdateTicket(dbTickets, dbContracts, id,
                               [ticket_date |-> dbTickets[id].ticket_date,
                                person |-> dbTickets[id].person,
                                crop |-> dbTickets[id].crop,
                                bushels |-> bushels,
                                delivery_location |-> dbTickets[id].delivery_location,
                                through |-> dbTickets[id].through,
                                contract_id |-> contract_id,
                                status |-> status])
       IN  /\ ~w.error
           /\ dbTickets' = w.t
           /\ dbContracts' = w.c
    /\ page = "other"
    /\ last' = ran
    /\ UNCHANGED <<ticketSeq, contractSeq, page, reviewState, matcherState>>

saveEdit(id, bushels, contract_id, status) ==
    saveEditAs(id, bushels, contract_id, status, Ran("saveEdit", id, 0, NullContract))

\* saveEdit, last keeping the ticket's bushels before the edit and the
\* contract it was counted on (none unless it was approved and bound)
saveEditTraced(id, bushels, contract_id, status) ==
    /\ id \in DOMAIN dbTickets
    /\ saveEditAs(id, bushels, contract_id, status,
                  Ran("saveEdit", id, dbTickets[id].bushels,
                      IF /\ dbTickets[id].status = "approved"
                         /\ dbTickets[id].contract_id # NULL
                      THEN dbContracts[dbTickets[id].contract_id]
                      ELSE NullContract))

\* TicketsPage: deleteTicket
deleteTicket(id) ==
    /\ id \in DOMAIN dbTickets
    /\ LET w == dbDeleteTicket(dbTickets, dbContracts, id)
       IN  /\ dbTickets' = w.t
           /\ dbContracts' = w.c
    /\ UNCHANGED <<ticketSeq, contractSeq>>
    /\ otherPage("deleteTicket", id)

\* TicketsPage: handleSoftDelete, offered outside the trash
handleSoftDelete(id) ==
    /\ id \in DOMAIN dbTickets
    /\ dbTickets[id].deleted = FALSE
    /\ LET w == dbUpdateTicket(dbTickets, dbContracts, id, [deleted |-> TRUE])
       IN  /\ dbTickets' = w.t
           /\ dbContracts' = w.c
    /\ UNCHANGED <<ticketSeq, contractSeq>>
    /\ otherPage("handleSoftDelete", id)

\* TicketsPage: handleRestore, offered in the trash
handleRestore(id) ==
    /\ id \in DOMAIN dbTickets
    /\ dbTickets[id].deleted = TRUE
    /\ LET w == dbUpdateTicket(dbTickets, dbContracts, id, [deleted |-> FALSE])
       IN  /\ dbTickets' = w.t
           /\ dbContracts' = w.c
    /\ UNCHANGED <<ticketSeq, contractSeq>>
    /\ otherPage("handleRestore", id)

\* TicketsPage: handlePermanentDelete, offered in the trash
handlePermanentDelete(id) ==
    /\ id \in DOMAIN dbTickets
    /\ dbTickets[id].deleted = TRUE
    /\ LET w == dbDeleteTicket(dbTickets, dbContracts, id)
       IN  /\ dbTickets' = w.t
           /\ dbContracts' = w.c
    /\ UNCHANGED <<ticketSeq, contractSeq>>
    /\ otherPage("handlePermanentDelete", id)

\* ContractsPage: the row handleSubmit saves from the form
formContract(contracted_bushels, end_date, overfill_allowed, destination) ==
    [crop |-> uploadCrop,
     owner |-> uploadPerson,
     through |-> uploadThrough,
     destination |-> destination,
     contracted_bushels |-> contracted_bushels,
     start_date |-> NoDate,
     end_date |-> end_date,
     priority |-> 5,
     overfill_allowed |-> overfill_allowed,
     is_template |-> FALSE,
     is_spot_sale |-> FALSE,
     crop_year |-> currentYear]

\* ContractsPage: handleSubmit with no contract being edited
handleSubmitCreate(contracted_bushels, end_date, overfill_allowed, destination) ==
    /\ contractSeq <= NumContracts
    /\ dbContracts' = dbInsertContract(dbContracts, contractSeq,
                         formContract(contracted_bushels, end_date, overfill_allowed,
                                      destination))
    /\ contractSeq' = contractSeq + 1
    /\ UNCHANGED <<dbTickets, ticketSeq>>
    /\ otherPage("handleSubmitCreate", NULL)

\* ContractsPage: handleSubmit on editingContract, the operator changing the
\* target and the overfill flag
handleSubmitEdit(cid, contracted_bushels, overfill_allowed) ==
    /\ cid \in DOMAIN dbContracts
    /\ dbContracts' = [dbContracts EXCEPT ![cid].contracted_bushels = contracted_bushels,
                                          ![cid].overfill_allowed = overfill_allowed]
    /\ UNCHANGED <<dbTickets, ticketSeq, contractSeq>>
    /\ otherPage("handleSubmitEdit", NULL)

\* ContractsPage: handleDelete, the operator confirming
handleDelete(id) ==
    /\ page = "other"
    /\ id \in DOMAIN dbContracts
    /\ LET w == dbDeleteContracts(dbTickets, dbContracts, {id})
       IN  /\ dbTickets' = w.t
           /\ dbContracts' = w.c
    /\ last' = Ran("handleDelete", id, boundBushels(dbTickets, {id}), dbContracts[id])
    /\ UNCHANGED <<ticketSeq, contractSeq, page, reviewState, matcherState>>

\* ContractsPage: handleBulkDelete on the ticked rows, the operator confirming
handleBulkDelete(selectedIds) ==
    /\ page = "other"
    /\ selectedIds # {}
    /\ selectedIds \subseteq DOMAIN dbContracts
    /\ LET w == dbDeleteContracts(dbTickets, dbContracts, selectedIds)
       IN  /\ dbTickets' = w.t
           /\ dbContracts' = w.c
    /\ last' = Ran("handleBulkDelete", Cardinality(selectedIds),
                   boundBushels(dbTickets, selectedIds), NullContract)
    /\ UNCHANGED <<ticketSeq, contractSeq, page, reviewState, matcherState>>

\* the router: the review queue mounts with its initial state and fetches
openReviewQueue ==
    /\ page = "other"
    /\ page' = "review"
    /\ fetchData(dbTickets, dbContracts)
    /\ last' = Ran("openReviewQueue", NULL, 0, NullContract)
    /\ UNCHANGED <<store, selectedTicket, showOverfillModal, overfillDecision, matcherState>>

\* the router: leaving the review queue unmounts it
leaveReviewQueue ==
    /\ page = "review"
    /\ page' = "other"
    /\ tickets' = <<>>
    /\ contracts' = <<>>
    /\ closeModal
    /\ last' = Ran("leaveReviewQueue", NULL, 0, NullContract)
    /\ UNCHANGED <<store, matcherState>>

(***************************************************************************)
(* The specification of the application.                                   *)
(***************************************************************************)
EmptyTable == [i \in {} |-> NullTicket]

Init ==
    /\ dbTickets = EmptyTable
    /\ dbContracts = EmptyTable
    /\ ticketSeq = 1
    /\ contractSeq = 1
    /\ page = "other"
    /\ tickets = <<>>
    /\ contracts = <<>>
    /\ selectedTicket = NullTicket
    /\ showOverfillModal = FALSE
    /\ overfillDecision = NoDecision
    /\ last = Ran("init", NULL, 0, NullContract)
    /\ mTicket = NullTicket
    /\ mContracts = <<>>
    /\ mResult = NoResult

\* the review queue, with the upload page and the contracts page
Next ==
    \/ \E i \in 1..NumTickets : handleApprove(i)
    \/ \E d \in Decisions : setOverfillDecision(d)
    \/ cancelOverfill
    \/ handleOverfillDecision
    \/ \E i \in 1..NumTickets : handleReject(i)
    \/ \E i \in 1..NumTickets, status \in {"rejected", "hold"} : handleStatus(i, status)
    \/ \E b \in 1..MaxBushels, d \in {1} : handleSubmitUpload(b, d)
    \/ \E b \in {MaxBushels}, d \in {NoDate}, o \in BOOLEAN,
          dest \in {LocElevatorALoose} : handleSubmitCreate(b, d, o, dest)
    \/ \E c \in ContractIds, b \in {0, MaxBushels}, o \in BOOLEAN : handleSubmitEdit(c, b, o)
    \/ openReviewQueue
    \/ leaveReviewQueue

Spec == Init /\ [][Next]_vars

\* the tickets pages, with the upload page, the contracts page and the
\* approvals of the review queue
NextLedger ==
    \/ \E i \in 1..NumTickets : handleApprove(i)
    \/ \E i \in 1..NumTickets : handleReject(i)
    \/ openReviewQueue
    \/ leaveReviewQueue
    \/ \E b \in 1..MaxBushels, d \in {1} : handleSubmitUpload(b, d)
    \/ \E b \in {MaxBushels}, d \in {NoDate}, o \in {FALSE},
          dest \in {LocElevatorALoose} : handleSubmitCreate(b, d, o, dest)
    \/ \E id \in TicketIds, b \in 1..MaxBushels, c \in {NULL} \cup ContractIds,
          status \in Statuses : saveEdit(id, b, c, status)
    \/ \E id \in TicketIds : deleteTicket(id)
    \/ \E id \in TicketIds : handleSoftDelete(id)
    \/ \E id \in TicketIds : handleRestore(id)
    \/ \E id \in TicketIds : handlePermanentDelete(id)

SpecLedger == Init /\ [][NextLedger]_vars

\* the review queue's approvals and overfill decisions, with the uploads and
\* contract edits that set them up
NextApprove ==
    \/ \E i \in 1..NumTickets : handleApprove(i)
    \/ \E d \in Decisions : setOverfillDecision(d)
    \/ cancelOverfill
    \/ handleOverfillDecision
    \/ \E b \in 1..MaxBushels, d \in {1} : handleSubmitUpload(b, d)
    \/ \E c \in ContractIds, b \in {0, MaxBushels}, o \in BOOLEAN : handleSubmitEdit(c, b, o)
    \/ openReviewQueue
    \/ leaveReviewQueue

SpecApprove == Init /\ [][NextApprove]_vars

\* the review queue's approvals over uploads whose bushels field may hold 0
\* (the upload form's number input is required and has no minimum)
NextValidate ==
    \/ \E i \in 1..NumTickets : handleApprove(i)
    \/ \E d \in Decisions : setOverfillDecision(d)
    \/ cancelOverfill
    \/ handleOverfillDecision
    \/ \E b \in 0..MaxBushels, d \in {1} : handleSubmitUpload(b, d)
    \/ \E c \in ContractIds, b \in {0, MaxBushels}, o \in BOOLEAN : handleSubmitEdit(c, b, o)
    \/ openReviewQueue
    \/ leaveReviewQueue

SpecValidate == Init /\ [][NextValidate]_vars

\* the review queue's approvals and overfill decisions, each store write
\* of theirs succeeding or returning an error
NextFail ==
    \/ \E i \in 1..NumTickets : handleApprove(i)
    \/ \E i \in 1..NumTickets, failed \in {"contracts", "tickets"} :
          handleApproveFailed(i, failed)
    \/ \E d \in Decisions : setOverfillDecision(d)
    \/ cancelOverfill
    \/ handleOverfillDecision
    \/ \E failed \in {"contracts", "tickets"} : handleOverfillDecisionFailed(failed)
    \/ \E b \in 1..MaxBushels, d \in {1} : handleSubmitUpload(b, d)
    \/ \E c \in ContractIds, b \in {0, MaxBushels}, o \in BOOLEAN : handleSubmitEdit(c, b, o)
    \/ openReviewQueue
    \/ leaveReviewQueue

SpecFail == Init /\ [][NextFail]_vars

\* the tickets page's edit as an approval onto a chosen contract, over
\* uploaded tickets and created contracts
NextReassign ==
    \/ \E b \in 1..MaxBushels, d \in {1} : handleSubmitUpload(b, d)
    \/ \E b \in {MaxBushels}, d \in {NoDate}, o \in {FALSE},
          dest \in {LocElevatorALoose} : handleSubmitCreate(b, d, o, dest)
    \/ \E id \in DOMAIN dbTickets, c \in {NULL} \cup ContractIds :
          saveEditTraced(id, dbTickets[id].bushels, c, "approved")

SpecReassign == Init /\ [][NextReassign]_vars

\* the contracts page's deletes, over tickets the tickets page has bound
NextDelete ==
    \/ \E b \in {MaxBushels}, d \in {1} : handleSubmitUpload(b, d)
    \/ \E b \in {MaxBushels}, d \in {NoDate}, o \in {FALSE},
          dest \in {LocElevatorALoose} : handleSubmitCreate(b, d, o, dest)
    \/ \E id \in DOMAIN dbTickets, c \in {NULL} \cup ContractIds,
          status \in {"approved", "hold"} :
          saveEdit(id, dbTickets[id].bushels, c, status)
    \/ \E id \in ContractIds : handleDelete(id)
    \/ \E selectedIds \in SUBSET ContractIds : handleBulkDelete(selectedIds)

SpecDelete == Init /\ [][NextDelete]_vars

\* the writers of tickets.contract_id and the delete of contracts: approvals
\* in the review queue, also with the ticket write failing, the tickets
\* page, the contracts page
NextReference ==
    \/ \E i \in 1..NumTickets : handleApprove(i)
    \/ \E i \in 1..NumTickets, failed \in {"tickets"} : handleApproveFailed(i, failed)
    \/ \E b \in {MaxBushels}, d \in {1} : handleSubmitUpload(b, d)
    \/ \E id \in DOMAIN dbTickets, c \in {NULL} \cup ContractIds :
          saveEdit(id, dbTickets[id].bushels, c, "approved")
    \/ \E id \in ContractIds : handleDelete(id)
    \/ openReviewQueue
    \/ leaveReviewQueue

SpecReference == Init /\ [][NextReference]_vars

\* the review queue's reject and hold buttons beside its approvals, with
\* the tickets page's edits
NextTriage ==
    \/ \E i \in 1..NumTickets : handleApprove(i)
    \/ \E i \in 1..NumTickets : handleReject(i)
    \/ \E i \in 1..NumTickets, status \in {"rejected", "hold"} : handleStatus(i, status)
    \/ \E b \in 1..MaxBushels, d \in {1} : handleSubmitUpload(b, d)
    \/ \E id \in DOMAIN dbTickets, c \in {NULL} \cup DOMAIN dbContracts,
          status \in {"needs_review", "approved"} :
          saveEdit(id, dbTickets[id].bushels, c, status)
    \/ openReviewQueue
    \/ leaveReviewQueue

SpecTriage == Init /\ [][NextTriage]_vars

\* approvals and overfill resolutions beside contracts entered for the
\* delivery's elevator and for another one
NextResolve ==
    \/ \E i \in 1..NumTickets : handleApprove(i)
    \/ \E d \in Decisions : setOverfillDecision(d)
    \/ cancelOverfill
    \/ handleOverfillDecision
    \/ \E b \in 1..MaxBushels, d \in {1} : handleSubmitUpload(b, d)
    \/ \E b \in {MaxBushels}, d \in {NoDate, MaxDate}, o \in {FALSE},
          dest \in {LocElevatorALoose, LocElevatorB} : handleSubmitCreate(b, d, o, dest)
    \/ \E c \in ContractIds, b \in {0, MaxBushels}, o \in BOOLEAN : handleSubmitEdit(c, b, o)
    \/ openReviewQueue
    \/ leaveReviewQueue

SpecResolve == Init /\ [][NextResolve]_vars

\* overfill resolutions beside a contract entered on the contracts page,
\* the operator closing contracts to overfill and clearing their target
NextRoll ==
    \/ \E i \in 1..NumTickets : handleApprove(i)
    \/ \E d \in Decisions : setOverfillDecision(d)
    \/ cancelOverfill
    \/ handleOverfillDecision
    \/ \E b \in {MaxBushels}, d \in {1} : handleSubmitUpload(b, d)
    \/ \E b \in {MaxBushels}, d \in {NoDate}, o \in {FALSE},
          dest \in {LocElevatorALoose} : handleSubmitCreate(b, d, o, dest)
    \/ \E c \in ContractIds, b \in {0}, o \in {FALSE} : handleSubmitEdit(c, b, o)
    \/ openReviewQueue
    \/ leaveReviewQueue

SpecRoll == Init /\ [][NextRoll]_vars

\* the review queue of a season that opens with one contract on the books,
\* entered on the contracts page before any ticket
SeedContractId == NumContracts + 1

InitSeeded ==
    /\ dbTickets = EmptyTable
    /\ dbContracts = dbInsertContract(EmptyTable, SeedContractId,
                                      formContract(MaxBushels, NoDate, FALSE,
                                                   LocElevatorALoose))
    /\ ticketSeq = 1
    /\ contractSeq = 1
    /\ page = "other"
    /\ tickets = <<>>
    /\ contracts = <<>>
    /\ selectedTicket = NullTicket
    /\ showOverfillModal = FALSE
    /\ overfillDecision = NoDecision
    /\ last = Ran("init", NULL, 0, NullContract)
    /\ mTicket = NullTicket
    /\ mContracts = <<>>
    /\ mResult = NoResult

SpecSeeded == InitSeeded /\ [][NextApprove]_vars

\* a season that opens with one spot-sale contract on the books, left by an
\* earlier approval whose ticket has since been deleted for good, and given
\* a target and closed to overfill on the contracts page
seedSpotSale ==
    [createSpotSaleContract([person |-> uploadPerson, crop |-> uploadCrop,
                             through |-> uploadThrough,
                             delivery_location |-> LocElevatorA,
                             ticket_date |-> 1, crop_year |-> currentYear])
         EXCEPT !.contracted_bushels = MaxBushels, !.overfill_allowed = FALSE]

InitShared ==
    /\ dbTickets = EmptyTable
    /\ dbContracts = dbInsertContract(EmptyTable, SeedContractId, seedSpotSale)
    /\ ticketSeq = 1
    /\ contractSeq = 1
    /\ page = "other"
    /\ tickets = <<>>
    /\ contracts = <<>>
    /\ selectedTicket = NullTicket
    /\ showOverfillModal = FALSE
    /\ overfillDecision = NoDecision
    /\ last = Ran("init", NULL, 0, NullContract)
    /\ mTicket = NullTicket
    /\ mContracts = <<>>
    /\ mResult = NoResult

\* two sessions on the review queue of one store: this one, and another
\* that approves from a queue of its own
NextShared ==
    \/ \E i \in 1..NumTickets : handleApprove(i)
    \/ \E id \in TicketIds : peerHandleApprove(id)
    \/ \E d \in Decisions : setOverfillDecision(d)
    \/ cancelOverfill
    \/ handleOverfillDecision
    \/ \E b \in 1..MaxBushels, d \in {1} : handleSubmitUpload(b, d)
    \/ openReviewQueue
    \/ leaveReviewQueue

SpecShared == InitShared /\ [][NextShared]_vars

\* the two sessions, the other one also deleting contracts, and this one's
\* queue fetched again when a ticket has been read from its image
NextRefresh ==
    \/ NextShared
    \/ \E i \in 1..NumTickets, b \in 1..MaxBushels : handleAIRead(i, b)
    \/ \E id \in {SeedContractId} \cup ContractIds : peerHandleDelete(id)

SpecRefresh == InitShared /\ [][NextRefresh]_vars


(***************************************************************************)
(* The matcher on its own: findBestContract applied to a delivery and a    *)
(* list of candidate rows.                                                 *)
(***************************************************************************)
matchDelivery(person, crop, through, delivery_location) ==
    [id |-> 1, person |-> person, crop |-> crop, through |-> through,
     delivery_location |-> delivery_location]

\* one delivery that agrees with the candidates, and the deliveries that
\* differ from it in one field
MatchDeliveries ==
    {matchDelivery("Karl", "Corn", "Akron", LocElevatorA),
     matchDelivery("Anthony", "Corn", "Akron", LocElevatorA),
     matchDelivery("Karl", "Soybeans", "Akron", LocElevatorA),
     matchDelivery("Karl", "Corn", "RVC", LocElevatorA),
     matchDelivery("Karl", "Corn", "Akron", LocElevatorALoose),
     matchDelivery("Karl", "Corn", "Akron", LocElevatorB)}

\* open, exactly full with overfill allowed, and without a target
MatchFills ==
    {[contracted_bushels |-> 2, delivered_bushels |-> 1, overfill_allowed |-> FALSE],
     [contracted_bushels |-> 2, delivered_bushels |-> 2, overfill_allowed |-> TRUE],
     [contracted_bushels |-> 0, delivered_bushels |-> 1, overfill_allowed |-> TRUE]}

MatchThroughs == {"Akron", "Any"}

candidateRow(through, fill, end_date, is_spot_sale) ==
    [id |-> NULL,
     crop |-> "Corn",
     owner |-> "Karl",
     through |-> through,
     destination |-> LocElevatorA,
     contracted_bushels |-> fill.contracted_bushels,
     delivered_bushels |-> fill.delivered_bushels,
     start_date |-> NoDate,
     end_date |-> end_date,
     priority |-> 5,
     overfill_allowed |-> fill.overfill_allowed,
     is_template |-> FALSE,
     is_spot_sale |-> is_spot_sale,
     crop_year |-> currentYear]

CandidateRows ==
    {candidateRow(th, f, d, sp) :
        th \in MatchThroughs, f \in MatchFills, d \in {NoDate} \cup Dates, sp \in BOOLEAN}

\* the lists of n candidate rows, the row at position k having id k
candidateLists(n) ==
    {[k \in 1..n |-> [rows[k] EXCEPT !.id = k]] : rows \in [1..n -> CandidateRows]}

InitMatch ==
    /\ dbTickets = EmptyTable
    /\ dbContracts = EmptyTable
    /\ ticketSeq = 1
    /\ contractSeq = 1
    /\ page = "other"
    /\ tickets = <<>>
    /\ contracts = <<>>
    /\ selectedTicket = NullTicket
    /\ showOverfillModal = FALSE
    /\ overfillDecision = NoDecision
    /\ last = Ran("init", NULL, 0, NullContract)
    /\ mTicket \in MatchDeliveries
    /\ \E n \in 0..MaxCandidates : mContracts \in candidateLists(n)
    /\ mResult = NoResult

runMatch ==
    /\ mResult = NoResult
    /\ mResult' = findBestContract(mTicket, mContracts)
    /\ UNCHANGED <<store, page, reviewState, last, mTicket, mContracts>>

NextMatch == runMatch

SpecMatch == InitMatch /\ [][NextMatch]_vars

(***************************************************************************)
(* createSpotSaleContract on its own, applied to a ticket.                 *)
(***************************************************************************)
SpotTickets ==
    {[id |-> 1, person |-> person, crop |-> crop, through |-> through,
      delivery_location |-> delivery_location, ticket_date |-> ticket_date,
      crop_year |-> crop_year] :
        person \in {"Karl", "Anthony"}, crop \in {"Corn", "Soybeans"},
        through \in {"Akron", "RVC"},
        delivery_location \in {LocElevatorA, LocElevatorALoose, LocElevatorB},
        ticket_date \in Dates, crop_year \in {"2024", currentYear}}

InitSpot ==
    /\ dbTickets = EmptyTable
    /\ dbContracts = EmptyTable
    /\ ticketSeq = 1
    /\ contractSeq = 1
    /\ page = "other"
    /\ tickets = <<>>
    /\ contracts = <<>>
    /\ selectedTicket = NullTicket
    /\ showOverfillModal = FALSE
    /\ overfillDecision = NoDecision
    /\ last = Ran("init", NULL, 0, NullContract)
    /\ mTicket \in SpotTickets
    /\ mContracts = <<>>
    /\ mResult = NoResult

runCreateSpotSale ==
    /\ mResult = NoResult
    /\ mResult' = [contract |-> createSpotSaleContract(mTicket),
                   matchType |-> "created", confidence |-> 0]
    /\ UNCHANGED <<store, page, reviewState, last, mTicket, mContracts>>

NextSpot == runCreateSpotSale

SpecSpot == InitSpot /\ [][NextSpot]_vars


(***************************************************************************)
(* What the claims speak of, stated apart from the code.                   *)
(***************************************************************************)
\* the letters and digits of a text, letters in lower case
RECURSIVE alnumKey(_)
alnumKey(s) ==
    IF s = <<>> THEN <<>>
    ELSE LET ch == Head(s)
             up == {i \in DOMAIN UpperChars : UpperChars[i] = ch}
             low == IF up = {} THEN ch ELSE LowerChars[CHOOSE i \in up : TRUE]
         IN  IF low \in Range(LowerChars) \cup Range(DigitChars)
             THEN <<low>> \o alnumKey(Tail(s))
             ELSE alnumKey(Tail(s))

\* the eligibility conditions of the matcher as the specification words
\* them, the through taken at its exact reading
claimEligible(c, t) ==
    /\ c.owner = t.person
    /\ c.crop = t.crop
    /\ c.through = t.through
    /\ alnumKey(c.destination) = alnumKey(t.delivery_location)
    /\ percent_filled(c) < 100
    /\ ~c.is_spot_sale

\* the candidates and the contract returned by a finished run of the matcher
matchRan == mResult.matchType # "none"
returned == mResult.contract
candidates == Range(mContracts)

\* the sum a contract's delivered_bushels is to equal
ledgerSum(tk, cid) ==
    sumBushels(tk, {i \in DOMAIN tk : /\ tk[i].contract_id = cid
                                      /\ tk[i].status = "approved"
                                      /\ ~tk[i].deleted})

\* an end_date as a rank, a missing one after every date
endRank(c) == IF c.end_date = NoDate THEN MaxDate + 1 ELSE c.end_date

(***************************************************************************)
(* C1..C10.                                                                *)
(***************************************************************************)
\* C1: after every sequence of ticket operations each contract's
\* delivered_bushels equals the sum of bushels over the tickets bound to it
\* that are approved and not soft-deleted.
C1_LedgerConsistent ==
    \A c \in DOMAIN dbContracts :
        dbContracts[c].delivered_bushels = ledgerSum(dbTickets, c)

\* C2: approving a needs_review ticket that matches an open non-spot
\* contract with room for it leaves the ticket approved on such a contract,
\* that contract's delivered_bushels raised by the ticket's bushels, and no
\* contract created.
C2_ApproveBindsToMatch ==
    [][\A i \in 1..NumTickets :
          (/\ handleApprove(i)
           /\ \E c \in DOMAIN dbContracts :
                 /\ claimEligible(dbContracts[c], tickets[i])
                 /\ dbContracts[c].delivered_bushels + tickets[i].bushels
                       <= dbContracts[c].contracted_bushels)
          => (/\ DOMAIN dbContracts' = DOMAIN dbContracts
              /\ dbTickets'[tickets[i].id].status = "approved"
              /\ \E c \in DOMAIN dbContracts :
                    /\ claimEligible(dbContracts[c], tickets[i])
                    /\ dbTickets'[tickets[i].id].contract_id = c
                    /\ dbContracts'[c].delivered_bushels
                          = dbContracts[c].delivered_bushels + tickets[i].bushels)]_vars

\* C3: findBestContract never returns a contract whose spot-sale flag is set.
C3_NeverReturnsSpotSale ==
    (matchRan /\ returned.id # NULL) => ~returned.is_spot_sale

\* C4: findBestContract returns no contract exactly when no candidate is
\* eligible, and returns one of the eligible candidates when there is one.
C4_NoneIffNoEligible ==
    matchRan =>
        /\ (mResult.matchType = "spot") <=> (returned.id = NULL)
        /\ (returned.id = NULL) <=> ~(\E c \in candidates : claimEligible(c, mTicket))
        /\ (\E c \in candidates : claimEligible(c, mTicket))
              => (returned \in candidates /\ claimEligible(returned, mTicket))

\* C5: every contract findBestContract returns has the delivery's crop and
\* person, a destination equal to the delivery location once both are
\* lower-cased and stripped of non-alphanumerics, and percent_filled < 100,
\* whatever its overfill_allowed.
C5_ReturnedContractMatches ==
    (matchRan /\ returned.id # NULL) =>
        /\ returned \in candidates
        /\ returned.crop = mTicket.crop
        /\ returned.owner = mTicket.person
        /\ alnumKey(returned.destination) = alnumKey(mTicket.delivery_location)
        /\ percent_filled(returned) < 100

\* a contract was returned for a delivery whose location is spelled unlike
\* the destination, past a full candidate with overfill allowed that passes
\* every other check
C5_Witness ==
    /\ matchRan
    /\ returned.id # NULL
    /\ returned.destination # mTicket.delivery_location
    /\ \E c \in candidates :
          /\ c.id < returned.id
          /\ c.overfill_allowed
          /\ percent_filled(c) >= 100
          /\ c.is_spot_sale = returned.is_spot_sale
          /\ c.through = returned.through
          /\ endRank(c) < endRank(returned)

\* C6: of the candidates that pass every other check of the filter, the
\* ones it keeps are those whose through is 'Any' or equals the delivery's.
C6_ThroughWildcard ==
    matchRan =>
        \A c \in candidates :
            (\E th \in {mTicket.through, c.through} :
                 matchesTicket([c EXCEPT !.through = th], mTicket))
            => (matchesTicket(c, mTicket)
                  <=> (c.through = "Any" \/ c.through = mTicket.through))

\* C7: when a candidate is eligible, findBestContract returns an eligible
\* candidate whose end_date is the earliest among the eligible ones, a
\* missing end_date counting as later than every date.
C7_SoonestEndDate ==
    (matchRan /\ \E c \in candidates : claimEligible(c, mTicket)) =>
        /\ returned \in candidates
        /\ claimEligible(returned, mTicket)
        /\ \A c \in candidates :
              claimEligible(c, mTicket) => endRank(returned) <= endRank(c)

\* C8: an approval with a matched contract raises the overfill prompt
\* exactly when the contract disallows overfill and its delivered_bushels
\* plus the ticket's bushels exceed its contracted_bushels; otherwise the
\* ticket is bound to the contract.
C8_PromptExactlyWhenOver ==
    (last.op = "handleApprove" /\ last.contract.id # NULL) =>
        LET c == last.contract
            over == /\ ~c.overfill_allowed
                    /\ c.delivered_bushels + last.bushels > c.contracted_bushels
        IN  /\ showOverfillModal <=> over
            /\ over => selectedTicket.id = last.id
            /\ ~over => /\ dbTickets[last.id].status = "approved"
                        /\ dbTickets[last.id].contract_id = c.id

\* an approval brought a contract that disallows overfill to exactly its
\* target and was bound without a prompt
C8_Witness ==
    /\ last.op = "handleApprove"
    /\ last.contract.id # NULL
    /\ ~last.contract.overfill_allowed
    /\ last.contract.delivered_bushels + last.bushels = last.contract.contracted_bushels
    /\ ~showOverfillModal
    /\ dbTickets[last.id].status = "approved"
    /\ dbTickets[last.id].contract_id = last.contract.id

\* C9: no ticket with status needs_review, rejected or hold has a
\* contract_id.
C9_BoundOnlyWhenApproved ==
    \A t \in DOMAIN dbTickets :
        dbTickets[t].contract_id # NULL => dbTickets[t].status = "approved"

\* C10: editing the bushels of an approved ticket bound to a contract,
\* status and binding unchanged, leaves the contract's delivered_bushels
\* equal to the sum over its approved tickets, the edited ticket counted
\* once at its new quantity.
C10_EditRecounts ==
    [][\A id \in TicketIds, b \in 1..MaxBushels :
          (/\ id \in DOMAIN dbTickets
           /\ dbTickets[id].status = "approved"
           /\ dbTickets[id].contract_id # NULL
           /\ ~dbTickets[id].deleted
           /\ saveEdit(id, b, dbTickets[id].contract_id, "approved"))
          => dbContracts'[dbTickets[id].contract_id].delivered_bushels
                = ledgerSum(dbTickets', dbTickets[id].contract_id)]_vars

\* C11: when an approved ticket's contract_id is changed from contract A to
\* another contract B, afterwards A.delivered_bushels is the sum over the
\* approved tickets still bound to A, the moved ticket not among them, and
\* B.delivered_bushels is the sum over B's, the moved ticket among them.
C11_ReassignRecomputesBoth ==
    LET A == last.contract.id
        B == dbTickets[last.id].contract_id
    IN  (/\ last.op = "saveEdit"
         /\ A # NULL
         /\ last.id \in DOMAIN dbTickets
         /\ dbTickets[last.id].status = "approved"
         /\ B # NULL
         /\ B # A)
        => /\ dbContracts[A].delivered_bushels = ledgerSum(dbTickets, A)
           /\ dbContracts[B].delivered_bushels = ledgerSum(dbTickets, B)
           /\ dbContracts[B].delivered_bushels >= dbTickets[last.id].bushels

\* a ticket counted on A was moved to B while A kept another approved
\* ticket: A's total fell to that ticket's bushels and B's rose
C11_Witness ==
    /\ last.op = "saveEdit"
    /\ last.contract.id # NULL
    /\ last.id \in DOMAIN dbTickets
    /\ dbTickets[last.id].status = "approved"
    /\ dbTickets[last.id].contract_id \notin {NULL, last.contract.id}
    /\ last.contract.delivered_bushels > dbContracts[last.contract.id].delivered_bushels
    /\ dbContracts[last.contract.id].delivered_bushels > 0
    /\ dbContracts[dbTickets[last.id].contract_id].delivered_bushels
          = dbTickets[last.id].bushels

\* C12: soft-deleting an approved, bound ticket whose contract's total is
\* right takes its bushels out of the total, restoring it puts them back,
\* so that delete followed by restore returns the total to its value before;
\* the ticket keeps its status.
C12_DeleteRestoreRoundTrip ==
    [][\A id \in TicketIds :
          LET c == dbTickets[id].contract_id
          IN  (/\ id \in DOMAIN dbTickets
               /\ dbTickets[id].status = "approved"
               /\ c # NULL
               /\ dbContracts[c].delivered_bushels = ledgerSum(dbTickets, c)
               /\ (handleSoftDelete(id) \/ handleRestore(id)))
              => /\ dbTickets'[id].status = "approved"
                 /\ dbTickets'[id].contract_id = c
                 /\ dbContracts'[c].delivered_bushels = ledgerSum(dbTickets', c)]_vars

\* C13: while the overfill prompt is raised and no resolution is confirmed,
\* and when the prompt is cancelled, the prompted ticket is needs_review
\* with no contract_id, no contract is created and no contract's
\* delivered_bushels changes.
C13_PendingDecisionChangesNothing ==
    [][(\/ showOverfillModal'
        \/ (showOverfillModal /\ last'.op = "cancelOverfill"))
       => LET id == IF showOverfillModal' THEN selectedTicket'.id ELSE selectedTicket.id
          IN  /\ dbContracts' = dbContracts
              /\ dbTickets' = dbTickets
              /\ dbTickets'[id].status = "needs_review"
              /\ dbTickets'[id].contract_id = NULL]_vars

\* the prompt was raised on a contract with deliveries and then cancelled
C13_Witness ==
    /\ last.op = "cancelOverfill"
    /\ ~showOverfillModal
    /\ selectedTicket = NullTicket
    /\ dbTickets[last.id].status = "needs_review"
    /\ dbTickets[last.id].contract_id = NULL
    /\ \E c \in DOMAIN dbContracts :
          /\ ~dbContracts[c].overfill_allowed
          /\ dbContracts[c].delivered_bushels > 0

\* C14: resolution 'roll' binds the ticket to an existing contract only if
\* that contract is another one than the contract that raised the prompt,
\* is eligible for the ticket as the matcher's conditions have it (person,
\* crop, through, normalized delivery location, percent_filled < 100, not a
\* spot sale) and has the soonest end_date among such contracts; it finds
\* one whenever one exists.
C14_RollUsesMatcherEligibility ==
    [][(last'.op = "roll")
       => LET t == selectedTicket
              c == findBestContract(t, contracts).contract
              k == dbTickets'[t.id].contract_id
              others == {x \in Range(contracts) : x.id # c.id /\ claimEligible(x, t)}
          IN  /\ k \in DOMAIN dbContracts
                    => /\ dbContracts[k] \in others
                       /\ \A x \in others : endRank(dbContracts[k]) <= endRank(x)
              /\ others # {} => k \in DOMAIN dbContracts]_vars

C17_NoMatchAlwaysSpotSale ==
    [][(/\ last'.op = "handleApprove"
        /\ ~\E c \in DOMAIN dbContracts :
               claimEligible(dbContracts[c], dbTickets[last'.id]))
       => LET k == dbTickets'[last'.id].contract_id
          IN  /\ dbTickets'[last'.id].status = "approved"
              /\ k \notin DOMAIN dbContracts
              /\ k \in DOMAIN dbContracts'
              /\ dbContracts'[k].is_spot_sale
              /\ dbContracts'[k].overfill_allowed
              /\ dbContracts'[k].contracted_bushels = 0]_vars

\* C18: the contract createSpotSaleContract returns has contracted_bushels 0,
\* start_date and end_date equal to the ticket's date, priority 10,
\* overfill_allowed true, is_template false, the spot-sale flag true, and
\* the ticket's crop, person (as owner), through, delivery location (as
\* destination, as written) and crop_year.
C18_SpotSaleContractFields ==
    (mResult.matchType = "created") =>
        LET c == mResult.contract
        IN  /\ c.contracted_bushels = 0
            /\ c.start_date = mTicket.ticket_date
            /\ c.end_date = mTicket.ticket_date
            /\ c.priority = 10
            /\ c.overfill_allowed = TRUE
            /\ c.is_template = FALSE
            /\ c.is_spot_sale = TRUE
            /\ c.crop = mTicket.crop
            /\ c.owner = mTicket.person
            /\ c.through = mTicket.through
            /\ c.destination = mTicket.delivery_location
            /\ c.crop_year = mTicket.crop_year

\* a spot-sale contract was made for a ticket of the latest date, another
\* person, another season and a loosely written elevator
C18_Witness ==
    /\ mResult.matchType = "created"
    /\ mTicket.ticket_date = MaxDate
    /\ mTicket.person = "Anthony"
    /\ mTicket.crop_year # currentYear
    /\ mTicket.delivery_location = LocElevatorALoose
    /\ mResult.contract.end_date = MaxDate

\* C19: a ticket is approved only if its person, crop and delivery location
\* are non-empty and its bushels are greater than 0 (an approval attempt on a
\* ticket lacking one of these is blocked and changes nothing).
C19_ApprovedOnlyWhenValid ==
    \A id \in DOMAIN dbTickets :
        (dbTickets[id].status = "approved") =>
            /\ dbTickets[id].person # ""
            /\ dbTickets[id].crop # ""
            /\ dbTickets[id].delivery_location # ""
            /\ dbTickets[id].bushels > 0

\* C20: an approval or an overfill resolution in which a store write fails
\* has no partial effect: the tickets (status, binding) and the contracts
\* (the set of them and their totals) are as they were before the attempt.
C20_FailedWriteNoPartialEffect ==
    [][(last'.op \in {"handleApproveFailed", "handleOverfillDecisionFailed"}) =>
           /\ dbTickets' = dbTickets
           /\ dbContracts' = dbContracts]_vars

(***************************************************************************)
(* C21..C30.                                                               *)
(***************************************************************************)
\* C21: approvals of different tickets matched to one contract that does not
\* allow overfill serialize: no approval, as distinct from a 'keep'
\* resolution, takes such a contract's delivered_bushels over its
\* contracted_bushels.
C21_ApprovalsSerialize ==
    [][(last'.op \in {"handleApprove", "peerHandleApprove"}) =>
           \A c \in DOMAIN dbContracts :
               (/\ ~dbContracts[c].overfill_allowed
                /\ dbContracts'[c].delivered_bushels > dbContracts'[c].contracted_bushels)
               => dbContracts'[c].delivered_bushels = dbContracts[c].delivered_bushels]_vars

\* C22: in every state between store operations, with a second session at
\* work too, the tickets counted in a contract's delivered_bushels are
\* exactly the non-deleted tickets approved and bound to it: the ticket
\* write and the recomputation of the ledger are never seen apart.
C22_TicketAndLedgerTogether ==
    \A c \in DOMAIN dbContracts :
        LET counted == {id \in DOMAIN dbTickets : /\ ~dbTickets[id].deleted
                                                  /\ dbTickets[id].status = "approved"
                                                  /\ dbTickets[id].contract_id = c}
        IN  dbContracts[c].delivered_bushels = sumBushels(dbTickets, counted)

C24_RecomputeIdempotent ==
    [][(last'.op = "saveEdit" /\ dbTickets' = dbTickets) => dbContracts' = dbContracts]_vars

\* the lists holding the rows of s in every order
reorderings(s) ==
    LET n == Len(s)
        orders == {o \in [1..n -> 1..n] : \A a, b \in 1..n : a # b => o[a] # o[b]}
    IN  {[k \in 1..n |-> s[o[k]]] : o \in orders}

\* C25: for a fixed delivery and a fixed set of candidates findBestContract
\* returns the same contract in whatever order the candidates are supplied,
\* two eligible candidates of the same end_date included.
C25_OrderIndependent ==
    matchRan =>
        \A cs \in reorderings(mContracts) :
            findBestContract(mTicket, cs).contract = returned

\* C26: a 'roll' resolution is one pass: the step leaves the ticket approved
\* and bound to one contract, the soonest-ending other open contract of the
\* ticket's owner, crop and through if there is one and else a new
\* spot-sale contract; the ticket's bushels are added to the rolled-to
\* contract whatever its target, and no prompt is open afterwards.
C26_RollSinglePass ==
    [][(last'.op = "roll")
       => LET t == selectedTicket
              c == findBestContract(t, contracts).contract
              k == dbTickets'[t.id].contract_id
              found == {x \in Range(contracts) : /\ x.id # c.id
                                                 /\ x.owner = t.person
                                                 /\ x.crop = t.crop
                                                 /\ x.through = t.through
                                                 /\ percent_filled(x) < 100}
          IN  /\ dbTickets'[t.id].status = "approved"
              /\ ~showOverfillModal'
              /\ selectedTicket' = NullTicket
              /\ IF found # {}
                 THEN /\ \E x \in found :
                            /\ x.id = k
                            /\ \A y \in found : endRank(x) <= endRank(y)
                            /\ dbContracts'[k].delivered_bushels
                                  = x.delivered_bushels + t.bushels
                      /\ DOMAIN dbContracts' = DOMAIN dbContracts
                 ELSE /\ k \notin DOMAIN dbContracts
                      /\ k \in DOMAIN dbContracts'
                      /\ dbContracts'[k].is_spot_sale]_vars

\* a roll has put the ticket on an existing contract that does not allow
\* overfill and is now over its target, and no prompt is open
C26_Witness ==
    /\ last.op = "roll"
    /\ dbTickets[last.id].status = "approved"
    /\ dbTickets[last.id].contract_id \in DOMAIN dbContracts
    /\ LET k == dbContracts[dbTickets[last.id].contract_id]
       IN  /\ k.id # last.contract.id
           /\ ~k.is_spot_sale
           /\ ~k.overfill_allowed
           /\ k.delivered_bushels > k.contracted_bushels
    /\ ~showOverfillModal

\* C27: a spot-sale contract is in the store before its ticket is bound to
\* it, and in every reachable state each ticket's contract_id that is not
\* null is the id of a contract in the store.
C27_BoundContractExists ==
    \A id \in DOMAIN dbTickets :
        dbTickets[id].contract_id # NULL => dbTickets[id].contract_id \in DOMAIN dbContracts

\* an approval with no match has made a spot-sale contract and bound the
\* ticket to it, after an earlier contract was deleted
C27_Witness ==
    /\ last.op = "handleApprove"
    /\ last.contract.id = NULL
    /\ dbTickets[last.id].contract_id \in DOMAIN dbContracts
    /\ dbContracts[dbTickets[last.id].contract_id].is_spot_sale
    /\ \E c \in ContractIds : c < contractSeq /\ c \notin DOMAIN dbContracts

C29_OneSpotSalePerTicket ==
    /\ \A id \in DOMAIN dbTickets :
          dbTickets[id].status = "approved" => dbTickets[id].contract_id \in DOMAIN dbContracts
    /\ \A c \in DOMAIN dbContracts \ {SeedContractId} :
          dbContracts[c].is_spot_sale
          => \E id \in DOMAIN dbTickets : dbTickets[id].contract_id = c

\* C30: the contract a confirmed 'keep' or 'roll' acts on is the contract
\* that raised the prompt: while the prompt stays open, findBestContract on
\* the selected ticket and the loaded contracts keeps yielding that same
\* contract, and never none, also across a fetch of the list.
C30_ResolvesPromptingContract ==
    [][(showOverfillModal /\ showOverfillModal')
       => LET before == findBestContract(selectedTicket, contracts).contract
              after == findBestContract(selectedTicket', contracts').contract
          IN  /\ after.id # NULL
              /\ after.id = before.id]_vars

====
